---- MODULE Spec2Model ----
(***************************************************************************)
(* EasyMotion (src/EasyMotion/easy_motion.py): the JumpGroupGenerator      *)
(* class and the window/text commands that drive a jump session on one     *)
(* host view.  Offsets are 0-based buffer offsets as in the host API;      *)
(* TLA+ sequences are 1-based, so the character at offset p is text[p+1].  *)
(***************************************************************************)
EXTENDS Integers, Sequences, FiniteSets, TLC

VARIABLES
    buffer,               \* the view's text, a sequence of one-character strings
    visible_region,       \* view.visible_region()
    sel,                  \* view.sel(): a sequence of regions
    folded,               \* the view's folded regions
    view_settings,        \* view.settings(): easy_motion_mode, command_mode
    jump_match_regions,   \* view.get_regions("jump_match_regions")
    undo_stack,           \* the host's undo stack: texts to restore, newest last
    plugin_settings,      \* EasyMotion.sublime-settings
    JUMP_GROUP_GENERATOR, \* module globals of easy_motion.py
    CURRENT_JUMP_GROUP,
    SELECT_TEXT,
    COMMAND_MODE_WAS,
    JUMP_TARGET_SCOPE,
    last,                 \* the last command or method run and its outcome
    session,              \* the view's command_mode when the session started
    calls,                \* the methods called on the generator since it was built
    frame                 \* a running call of create_jump_target_groups

vars == <<buffer, visible_region, sel, folded, view_settings, jump_match_regions,
          undo_stack, plugin_settings, JUMP_GROUP_GENERATOR, CURRENT_JUMP_GROUP,
          SELECT_TEXT, COMMAND_MODE_WAS, JUMP_TARGET_SCOPE, last, session, calls,
          frame>>

(***************************************************************************)
(* Bounds of the model.                                                    *)
(***************************************************************************)
MaxTextLen == 2
MaxGrouperTextLen == 5
LongRun == 37
MaxCalls == 4
MaxLocatorTextLen == 4
MaxCreateTargets == 5

\* Python's None, and "no exception" as the outcome of a call
None == [none |-> TRUE]
NoError == "none"

Min(x, y) == IF x <= y THEN x ELSE y
Max(x, y) == IF x >= y THEN x ELSE y

(***************************************************************************)
(* sublime.Region: an ordered pair (a, b); b is the caret end.             *)
(***************************************************************************)
Region(x, y) == [a |-> x, b |-> y]
begin(r) == Min(r.a, r.b)
end(r) == Max(r.a, r.b)
contains(outer, r) == begin(outer) <= begin(r) /\ end(outer) >= end(r)
intersects(r1, r2) == begin(r1) < end(r2) /\ begin(r2) < end(r1)

(***************************************************************************)
(* A Python dict: key/value pairs in insertion order, keys unique.         *)
(* d[k] = v overwrites the value of a key already present in place.        *)
(***************************************************************************)
EmptyDict == [items |-> << >>]
DictLen(d) == Len(d.items)
DictHas(d, k) == \E i \in 1..Len(d.items) : d.items[i].key = k
DictGet(d, k) == d.items[CHOOSE i \in 1..Len(d.items) : d.items[i].key = k].value
DictSet(d, k, v) ==
    IF DictHas(d, k)
    THEN [items |-> [i \in 1..Len(d.items) |->
                        IF d.items[i].key = k THEN [key |-> k, value |-> v]
                        ELSE d.items[i]]]
    ELSE [items |-> Append(d.items, [key |-> k, value |-> v])]
keys(d) == [i \in 1..Len(d.items) |-> d.items[i].key]
values(d) == [i \in 1..Len(d.items) |-> d.items[i].value]

Range(s) == {s[i] : i \in 1..Len(s)}
Reverse(s) == [i \in 1..Len(s) |-> s[Len(s) + 1 - i]]
RECURSIVE Concat(_)
Concat(ss) == IF ss = << >> THEN << >> ELSE Head(ss) \o Concat(Tail(ss))
RECURSIVE SeqsUpTo(_, _)
SeqsUpTo(S, n) ==
    IF n = 0 THEN {<< >>}
    ELSE LET shorter == SeqsUpTo(S, n - 1)
         IN  shorter \cup {Append(s, c) : s \in shorter, c \in S}

(***************************************************************************)
(* Characters and regular expressions.  A compiled pattern is kept as what *)
(* it matches: its inline flag and either one literal character or the     *)
(* line-boundary alternation "(?=^).|.(?=$)".                              *)
(***************************************************************************)
REGEX_ESCAPE_CHARS ==
    {"\\", "+", "*", "(", ")", "[", "]", "{", "}", "^", "$", "?", "|", ":", ".", ","}

Lower(c) == CASE c = "A" -> "a" [] c = "B" -> "b" [] OTHER -> c

determine_re_flags(character, case_sensitive) ==
    IF character = "enter" THEN "(?m)"
    ELSE IF case_sensitive THEN "(?i)"
    ELSE ""

target_regexp(character, case_sensitive) ==
    LET re_flags == determine_re_flags(character, case_sensitive)
    IN  IF character \in REGEX_ESCAPE_CHARS
        THEN [flags |-> re_flags, kind |-> "literal", char |-> character]
        ELSE IF character = "enter"
        THEN [flags |-> re_flags, kind |-> "boundary", char |-> ""]
        ELSE [flags |-> re_flags, kind |-> "literal", char |-> character]

\* Whether the pattern matches the one character at 0-based offset i of text.
MatchesAt(regexp, text, i) ==
    LET c == text[i + 1]
        lineStart == i = 0 \/ text[i] = "\n"
        lineEnd == i + 1 = Len(text) \/ text[i + 2] = "\n"
    IN  IF regexp.kind = "boundary"
        THEN c # "\n" /\ (lineStart \/ lineEnd)
        ELSE IF regexp.flags = "(?i)"
        THEN Lower(c) = Lower(regexp.char)
        ELSE c = regexp.char

\* match.start() for match in re.finditer(regexp, text), in text order.
finditer(regexp, text) ==
    SelectSeq([i \in 1..Len(text) |-> i - 1], LAMBDA i : MatchesAt(regexp, text, i))

(***************************************************************************)
(* Host view queries used by the generator.  A view is the record          *)
(* [buffer, visible_region, sel, folded].                                  *)
(***************************************************************************)
substr(view, region) == SubSeq(view.buffer, begin(region) + 1, end(region))

\* view.unfold(region): the folded regions touching the region, in text order.
unfold(view, region) ==
    SelectSeq(view.folded, LAMBDA f : intersects(f, region) \/ contains(region, f))

(***************************************************************************)
(* class JumpGroupGenerator                                                *)
(***************************************************************************)
visible_region_begin(view) == begin(view.visible_region)

visible_text(view) == substr(view, view.visible_region)

\* folded_regions = view.unfold(view.visible_region()): the list returned
get_folded_regions(view) == unfold(view, view.visible_region)

\* view.fold(regions): the regions are folded, with the folds the view has
RECURSIVE InTextOrder(_)
InTextOrder(regions) ==
    IF regions = {} THEN << >>
    ELSE LET first == CHOOSE r \in regions :
                          \A q \in regions :
                              \/ begin(r) < begin(q)
                              \/ begin(r) = begin(q) /\ end(r) <= end(q)
         IN  <<first>> \o InTextOrder(regions \ {first})

fold(folds, regions) == InTextOrder(Range(folds) \cup Range(regions))

\* the folds view.unfold(region) leaves in the view
folds_left_by_unfold(view, region) ==
    SelectSeq(view.folded, LAMBDA f : ~(intersects(f, region) \/ contains(region, f)))

folds_after_unfold_only(view) ==
    folds_left_by_unfold(view, view.visible_region)

\* the view's folds when get_folded_regions has returned
folds_after_get_folded_regions(view) ==
    fold(folds_left_by_unfold(view, view.visible_region), get_folded_regions(view))

region_list_contains_region(region_list, region) ==
    \E i \in 1..Len(region_list) : contains(region_list[i], region)

find_all_jump_targets_in_visible_region(view, character, case_sensitive) ==
    LET begin_ == visible_region_begin(view)
        text == visible_text(view)
        folded_regions == get_folded_regions(view)
        regexp == target_regexp(character, case_sensitive)
        char_ats == finditer(regexp, text)
        char_regions == [i \in 1..Len(char_ats) |->
                            Region(char_ats[i] + begin_, char_ats[i] + begin_ + 1)]
    IN  SelectSeq(char_regions,
                  LAMBDA r : ~region_list_contains_region(folded_regions, r))

\* itertools.zip_longest(before, after), flattened, the None fillers dropped
zip_longest_flat(before, after) ==
    LET n == Max(Len(before), Len(after))
        pair(i) == (IF i <= Len(before) THEN <<before[i]>> ELSE << >>)
                   \o (IF i <= Len(after) THEN <<after[i]>> ELSE << >>)
    IN  Concat([i \in 1..n |-> pair(i)])

before_targets_appended(all_jump_targets, sel_begin) ==
    SelectSeq(all_jump_targets, LAMBDA t : begin(t) < sel_begin)

before_targets(all_jump_targets, sel_begin) ==
    Reverse(SelectSeq(all_jump_targets, LAMBDA t : begin(t) < sel_begin))

after_targets_from_sel_end(all_jump_targets, sel_begin, sel_end) ==
    SelectSeq(all_jump_targets, LAMBDA t : ~(begin(t) < sel_begin) /\ begin(t) >= sel_end)

after_targets(all_jump_targets, sel_begin, sel_end) ==
    SelectSeq(all_jump_targets, LAMBDA t : ~(begin(t) < sel_begin) /\ begin(t) > sel_end)

interleave_jump_targets_from_cursor(view, all_jump_targets) ==
    LET sel0 == view.sel[1]
        sel_begin == begin(sel0)
        sel_end == end(sel0)
    IN  zip_longest_flat(before_targets(all_jump_targets, sel_begin),
                         after_targets(all_jump_targets, sel_begin, sel_end))

has_next_jump_target_off_by_one(interleaved, jump_target_index) ==
    jump_target_index < Len(interleaved) - 1

has_next_jump_target(interleaved, jump_target_index) ==
    jump_target_index < Len(interleaved)

\* the for loop over placeholder_chars, from its c-th character on
RECURSIVE fill_jump_group(_, _, _, _, _)
fill_jump_group(interleaved, placeholder_chars, c, jump_group, jump_target_index) ==
    IF c > Len(placeholder_chars) \/ ~has_next_jump_target(interleaved, jump_target_index)
    THEN [group |-> jump_group, index |-> jump_target_index]
    ELSE fill_jump_group(interleaved, placeholder_chars, c + 1,
                         DictSet(jump_group, placeholder_chars[c],
                                 interleaved[jump_target_index + 1]),
                         jump_target_index + 1)

\* the while loop; does not return for an empty alphabet and a non-empty list
RECURSIVE create_groups_from(_, _, _, _)
create_groups_from(interleaved, placeholder_chars, jump_target_groups, jump_target_index) ==
    IF ~has_next_jump_target(interleaved, jump_target_index)
    THEN [groups |-> jump_target_groups, index |-> jump_target_index]
    ELSE LET filled == fill_jump_group(interleaved, placeholder_chars, 1,
                                       EmptyDict, jump_target_index)
         IN  create_groups_from(interleaved, placeholder_chars,
                                Append(jump_target_groups, filled.group), filled.index)

create_jump_target_groups(interleaved, placeholder_chars) ==
    create_groups_from(interleaved, placeholder_chars, << >>, 0)

\* __init__ returns unless create_jump_target_groups loops for ever
construction_returns(view, character, placeholder_chars, case_sensitive) ==
    \/ placeholder_chars # << >>
    \/ interleave_jump_targets_from_cursor(view,
           find_all_jump_targets_in_visible_region(view, character, case_sensitive)) = << >>

JumpGroupGenerator(view, character, placeholder_chars, case_sensitive) ==
    LET all == find_all_jump_targets_in_visible_region(view, character, case_sensitive)
        interleaved == interleave_jump_targets_from_cursor(view, all)
        created == create_jump_target_groups(interleaved, placeholder_chars)
    IN  [case_sensitive |-> case_sensitive,
         placeholder_chars |-> placeholder_chars,
         all_jump_targets |-> all,
         interleaved_jump_targets |-> interleaved,
         jump_target_index |-> created.index,
         jump_target_groups |-> created.groups,
         jump_target_group_index |-> -1]

\* list[i] of Python: a negative index counts from the end
InRange(list, i) == -Len(list) <= i /\ i < Len(list)
PyIndex(list, i) == IF i >= 0 THEN list[i + 1] ELSE list[Len(list) + i + 1]

\* next() and previous(): the generator after the call, and what the call
\* returned, or that it raised IndexError (the index is already assigned then)
next_wrap_off_by_one(g) ==
    LET inc == g.jump_target_group_index + 1
        idx == IF inc > Len(g.jump_target_groups) \/ inc < 0 THEN 0 ELSE inc
    IN  [gen |-> [g EXCEPT !.jump_target_group_index = idx],
         raised |-> ~InRange(g.jump_target_groups, idx),
         ret |-> IF InRange(g.jump_target_groups, idx)
                 THEN PyIndex(g.jump_target_groups, idx) ELSE None]

next_consuming(g) ==
    LET inc == g.jump_target_group_index + 1
        idx == IF inc >= Len(g.jump_target_groups) \/ inc < 0 THEN 0 ELSE inc
        rest == [k \in 1..(Len(g.jump_target_groups) - 1) |->
                    IF k <= idx THEN g.jump_target_groups[k]
                    ELSE g.jump_target_groups[k + 1]]
    IN  [gen |-> [g EXCEPT !.jump_target_group_index = idx,
                           !.jump_target_groups =
                               IF InRange(g.jump_target_groups, idx) THEN rest ELSE @],
         raised |-> ~InRange(g.jump_target_groups, idx),
         ret |-> IF InRange(g.jump_target_groups, idx)
                 THEN PyIndex(g.jump_target_groups, idx) ELSE None]

next(g) ==
    LET inc == g.jump_target_group_index + 1
        idx == IF inc >= Len(g.jump_target_groups) \/ inc < 0 THEN 0 ELSE inc
    IN  [gen |-> [g EXCEPT !.jump_target_group_index = idx],
         raised |-> ~InRange(g.jump_target_groups, idx),
         ret |-> IF InRange(g.jump_target_groups, idx)
                 THEN PyIndex(g.jump_target_groups, idx) ELSE None]

previous_without_wrap(g) ==
    LET idx == g.jump_target_group_index - 1
    IN  [gen |-> [g EXCEPT !.jump_target_group_index = idx],
         raised |-> ~InRange(g.jump_target_groups, idx),
         ret |-> IF InRange(g.jump_target_groups, idx)
                 THEN PyIndex(g.jump_target_groups, idx) ELSE None]

previous(g) ==
    LET dec == g.jump_target_group_index - 1
        idx == IF dec < 0 \/ dec >= Len(g.jump_target_groups)
               THEN Len(g.jump_target_groups) - 1 ELSE dec
    IN  [gen |-> [g EXCEPT !.jump_target_group_index = idx],
         raised |-> ~InRange(g.jump_target_groups, idx),
         ret |-> IF InRange(g.jump_target_groups, idx)
                 THEN PyIndex(g.jump_target_groups, idx) ELSE None]

(***************************************************************************)
(* The host: undo stack, text replacement, the view as the plugin sees it. *)
(***************************************************************************)
View == [buffer |-> buffer, visible_region |-> visible_region,
         sel |-> sel, folded |-> folded]

\* view.replace(edit, region, char) for each key of the group, in key order
RECURSIVE replace_all(_, _, _)
replace_all(text, group, i) ==
    IF i > DictLen(group) THEN text
    ELSE LET r == group.items[i].value
             replaced == IF begin(r) < Len(text)
                         THEN [text EXCEPT ![begin(r) + 1] = group.items[i].key]
                         ELSE text
         IN  replace_all(replaced, group, i + 1)

\* SetTextEmCommand.run: one undoable edit that overlays the labels
set_text_em(text, stack, group) ==
    [buffer |-> replace_all(text, group, 1),
     undo_stack |-> Append(stack, [text |-> text, by |-> "overlay"])]

\* window.run_command("undo"): revert the newest edit, whoever made it
undo(text, stack) ==
    IF stack = << >>
    THEN [buffer |-> text, undo_stack |-> stack, undid |-> "nothing"]
    ELSE [buffer |-> stack[Len(stack)].text,
          undo_stack |-> SubSeq(stack, 1, Len(stack) - 1),
          undid |-> stack[Len(stack)].by]

OverlaysApplied(stack) == Cardinality({i \in 1..Len(stack) : stack[i].by = "overlay"})

(***************************************************************************)
(* ShowJumpGroupCommand.show_jump_group and activate_current_jump_group,   *)
(* as a function of the state they read: the values they leave behind.     *)
(***************************************************************************)
activate_current_jump_group_no_undo(text, stack, regions, group) ==
    LET overlaid == set_text_em(text, stack, group)
    IN  [buffer |-> overlaid.buffer,
         undo_stack |-> overlaid.undo_stack,
         jump_match_regions |-> values(group),
         undid |-> "not run"]

activate_current_jump_group(text, stack, regions, group) ==
    LET erased == regions # << >>
        undone == IF erased THEN undo(text, stack)
                  ELSE [buffer |-> text, undo_stack |-> stack, undid |-> "not run"]
        overlaid == set_text_em(undone.buffer, undone.undo_stack, group)
    IN  [buffer |-> overlaid.buffer,
         undo_stack |-> overlaid.undo_stack,
         jump_match_regions |-> values(group),
         undid |-> undone.undid]

show_jump_group(gen, isNext, text, stack, regions, current) ==
    LET called == IF isNext THEN next(gen) ELSE previous(gen)
        shown == activate_current_jump_group(text, stack, regions, called.ret)
    IN  IF called.raised
        THEN [gen |-> called.gen, group |-> current, raised |-> "IndexError",
              buffer |-> text, undo_stack |-> stack,
              jump_match_regions |-> regions, undid |-> "not run"]
        ELSE [gen |-> called.gen, group |-> called.ret, raised |-> NoError,
              buffer |-> shown.buffer, undo_stack |-> shown.undo_stack,
              jump_match_regions |-> shown.jump_match_regions, undid |-> shown.undid]

(***************************************************************************)
(* JumpTo.winning_selection_from                                           *)
(***************************************************************************)
winning_selection_from_first_entry(selection, group, select_text, selections) ==
    LET winning_region == IF DictHas(group, selection) THEN DictGet(group, selection)
                          ELSE group.items[1].value
    IN  Region(begin(winning_region), begin(winning_region))

winning_selection_from(selection, group, select_text, selections) ==
    IF ~DictHas(group, selection) THEN None
    ELSE LET winning_region == DictGet(group, selection)
             current_selection == selections[1]
         IN  IF select_text
             THEN IF selections = << >> THEN None
                  ELSE IF begin(winning_region) < begin(current_selection)
                  THEN Region(end(current_selection), begin(winning_region))
                  ELSE Region(begin(current_selection), end(winning_region))
             ELSE Region(begin(winning_region), begin(winning_region))

\* JumpTo.jump_to_winning_selection with JumpToWinningSelection.run
jump_to_winning_selection(winning_selection, selections) ==
    IF winning_selection = None THEN selections
    ELSE <<Region(begin(winning_selection), end(winning_selection))>>

(***************************************************************************)
(* EasyMotion.sublime-settings: a setting that is not configured is not in *)
(* the record's domain and settings.get falls back to its default.         *)
(***************************************************************************)
DefaultPlaceholderChars ==
    <<"a", "b", "c", "d", "e", "f", "g", "h", "i", "j", "k", "l", "m",
      "n", "o", "p", "q", "r", "s", "t", "u", "v", "w", "x", "y", "z",
      "0", "1", "2", "3", "4", "5", "6", "7", "8", "9", "0", "A", "B",
      "C", "D", "E", "F", "G", "H", "I", "J", "K", "L", "M", "N", "O",
      "P", "Q", "R", "S", "T", "U", "V", "W", "X", "Y", "Z">>

settings_get(settings, name, default) ==
    IF name \in DOMAIN settings THEN settings[name] ELSE default

placeholder_chars_setting(settings) ==
    settings_get(settings, "placeholder_chars", DefaultPlaceholderChars)

Done(cmd) == [cmd |-> cmd, raised |-> NoError, status |-> "none", winning |-> None,
              undid |-> "not run", ret |-> None]

(***************************************************************************)
(* EasyMotionCommand.run(character, select_text), with start_easy_motion,  *)
(* activate_mode and the show_jump_group command it runs.                  *)
(***************************************************************************)
EasyMotionCommand(character, select_text) ==
    LET placeholder_chars == placeholder_chars_setting(plugin_settings)
        case_sensitive == settings_get(plugin_settings, "case_sensitive", TRUE)
        gen == JumpGroupGenerator(View, character, placeholder_chars, case_sensitive)
        shown == show_jump_group(gen, TRUE, buffer, undo_stack, jump_match_regions,
                                 CURRENT_JUMP_GROUP)
    IN  /\ construction_returns(View, character, placeholder_chars, case_sensitive)
        /\ SELECT_TEXT' = select_text
        /\ JUMP_TARGET_SCOPE' = settings_get(plugin_settings, "jump_target_scope", "string")
        /\ IF Len(gen.jump_target_groups) > 0
           THEN /\ view_settings' = [easy_motion_mode |-> TRUE, command_mode |-> FALSE]
                /\ COMMAND_MODE_WAS' = view_settings.command_mode
                /\ session' = IF view_settings.easy_motion_mode THEN session
                              ELSE [command_mode |-> view_settings.command_mode]
                /\ JUMP_GROUP_GENERATOR' = shown.gen
                /\ CURRENT_JUMP_GROUP' = shown.group
                /\ buffer' = shown.buffer
                /\ undo_stack' = shown.undo_stack
                /\ jump_match_regions' = shown.jump_match_regions
                /\ last' = [Done("easy_motion") EXCEPT !.status = "jump to",
                                                       !.undid = shown.undid]
           ELSE /\ JUMP_GROUP_GENERATOR' = gen
                /\ last' = [Done("easy_motion") EXCEPT !.status = "unable to find"]
                /\ UNCHANGED <<view_settings, COMMAND_MODE_WAS, session,
                               CURRENT_JUMP_GROUP, buffer, undo_stack, jump_match_regions>>
        /\ folded' = folds_after_get_folded_regions(View)
        /\ UNCHANGED <<visible_region, sel, plugin_settings, calls, frame>>

(***************************************************************************)
(* ShowJumpGroupCommand.run(next)                                          *)
(***************************************************************************)
ShowJumpGroupCommand(isNext) ==
    LET shown == show_jump_group(JUMP_GROUP_GENERATOR, isNext, buffer, undo_stack,
                                 jump_match_regions, CURRENT_JUMP_GROUP)
    IN  /\ JUMP_GROUP_GENERATOR # None
        /\ JUMP_GROUP_GENERATOR' = shown.gen
        /\ CURRENT_JUMP_GROUP' = shown.group
        /\ buffer' = shown.buffer
        /\ undo_stack' = shown.undo_stack
        /\ jump_match_regions' = shown.jump_match_regions
        /\ last' = [Done("show_jump_group") EXCEPT !.raised = shown.raised,
                                                   !.undid = shown.undid]
        /\ UNCHANGED <<visible_region, sel, folded, view_settings, plugin_settings,
                       SELECT_TEXT, COMMAND_MODE_WAS, JUMP_TARGET_SCOPE, session, calls, frame>>

\* no generator has been built yet: JUMP_GROUP_GENERATOR.next raises AttributeError
ShowJumpGroupNoGenerator ==
    /\ JUMP_GROUP_GENERATOR = None
    /\ last' = [Done("show_jump_group") EXCEPT !.raised = "AttributeError"]
    /\ UNCHANGED <<buffer, visible_region, sel, folded, view_settings,
                   jump_match_regions, undo_stack, plugin_settings,
                   JUMP_GROUP_GENERATOR, CURRENT_JUMP_GROUP, SELECT_TEXT,
                   COMMAND_MODE_WAS, JUMP_TARGET_SCOPE, session, calls, frame>>

(***************************************************************************)
(* JumpTo.run(character), with finish_easy_motion                          *)
(***************************************************************************)
JumpTo(character) ==
    LET winning_selection == winning_selection_from(character, CURRENT_JUMP_GROUP,
                                                    SELECT_TEXT, sel)
        undone == undo(buffer, undo_stack)
    IN  /\ CURRENT_JUMP_GROUP # None
        /\ buffer' = undone.buffer
        /\ undo_stack' = undone.undo_stack
        /\ jump_match_regions' = << >>
        /\ sel' = jump_to_winning_selection(winning_selection, sel)
        /\ view_settings' = [easy_motion_mode |-> FALSE,
                             command_mode |-> IF COMMAND_MODE_WAS THEN TRUE
                                              ELSE view_settings.command_mode]
        /\ last' = [Done("jump_to") EXCEPT !.winning = winning_selection,
                                           !.undid = undone.undid]
        /\ UNCHANGED <<visible_region, folded, plugin_settings, JUMP_GROUP_GENERATOR,
                       CURRENT_JUMP_GROUP, SELECT_TEXT, COMMAND_MODE_WAS,
                       JUMP_TARGET_SCOPE, session, calls, frame>>

\* no group was ever shown: "selection in CURRENT_JUMP_GROUP" raises TypeError
JumpToNoGroup ==
    /\ CURRENT_JUMP_GROUP = None
    /\ last' = [Done("jump_to") EXCEPT !.raised = "TypeError"]
    /\ UNCHANGED <<buffer, visible_region, sel, folded, view_settings,
                   jump_match_regions, undo_stack, plugin_settings,
                   JUMP_GROUP_GENERATOR, CURRENT_JUMP_GROUP, SELECT_TEXT,
                   COMMAND_MODE_WAS, JUMP_TARGET_SCOPE, session, calls, frame>>

(***************************************************************************)
(* DeactivateJumpTargets.run                                               *)
(***************************************************************************)
DeactivateJumpTargets ==
    LET undone == undo(buffer, undo_stack)
    IN  /\ jump_match_regions' = << >>
        /\ buffer' = undone.buffer
        /\ undo_stack' = undone.undo_stack
        /\ view_settings' = [easy_motion_mode |-> FALSE,
                             command_mode |-> IF COMMAND_MODE_WAS THEN TRUE
                                              ELSE view_settings.command_mode]
        /\ last' = [Done("deactivate_jump_targets") EXCEPT !.undid = undone.undid]
        /\ UNCHANGED <<visible_region, sel, folded, plugin_settings,
                       JUMP_GROUP_GENERATOR, CURRENT_JUMP_GROUP, SELECT_TEXT,
                       COMMAND_MODE_WAS, JUMP_TARGET_SCOPE, session, calls, frame>>

(***************************************************************************)
(* The generator on its own: construction and the two paging methods.      *)
(***************************************************************************)
Construct(character) ==
    LET placeholder_chars == placeholder_chars_setting(plugin_settings)
        case_sensitive == settings_get(plugin_settings, "case_sensitive", TRUE)
    IN  /\ JUMP_GROUP_GENERATOR = None
        /\ construction_returns(View, character, placeholder_chars, case_sensitive)
        /\ JUMP_GROUP_GENERATOR' =
               JumpGroupGenerator(View, character, placeholder_chars, case_sensitive)
        /\ folded' = folds_after_get_folded_regions(View)
        /\ last' = Done("construct")
        /\ calls' = << >>
        /\ UNCHANGED <<buffer, visible_region, sel, view_settings,
                       jump_match_regions, undo_stack, plugin_settings,
                       CURRENT_JUMP_GROUP, SELECT_TEXT, COMMAND_MODE_WAS,
                       JUMP_TARGET_SCOPE, session, frame>>

Call(method, called) ==
    /\ JUMP_GROUP_GENERATOR # None
    /\ Len(calls) < MaxCalls
    /\ JUMP_GROUP_GENERATOR' = called.gen
    /\ last' = [Done(method) EXCEPT !.ret = called.ret,
                                    !.raised = IF called.raised THEN "IndexError"
                                               ELSE NoError]
    /\ calls' = Append(calls, method)
    /\ UNCHANGED <<buffer, visible_region, sel, folded, view_settings,
                   jump_match_regions, undo_stack, plugin_settings,
                   CURRENT_JUMP_GROUP, SELECT_TEXT, COMMAND_MODE_WAS,
                   JUMP_TARGET_SCOPE, session, frame>>

CallNext == Call("next", next(JUMP_GROUP_GENERATOR))

CallPrevious == Call("previous", previous(JUMP_GROUP_GENERATOR))

(***************************************************************************)
(* Inputs.                                                                 *)
(***************************************************************************)
TextChars == {"a", "\n"}
GrouperTextChars == {"a", "b"}
Characters == {"a", "."}
GrouperCharacters == {"a", ".", "enter"}
Labels == {"a", "b", "?"}

Texts == SeqsUpTo(TextChars, MaxTextLen)

\* a line "b", a run of n "a", and "b" again
LongText(n) == <<"b">> \o [i \in 1..n |-> "a"] \o <<"b">>

VisibleRegions(text) == {Region(0, Len(text)), Region(Min(1, Len(text)), Len(text))}

Carets(text) == {<<Region(p, p)>> : p \in 0..Len(text)}

\* a caret at either end, the whole text selected forwards or backwards, or
\* two carets
Selections(text) ==
    {<<Region(0, 0)>>, <<Region(Len(text), Len(text))>>}
        \cup {<<Region(0, Len(text))>>, <<Region(Len(text), 0)>>}
        \cup {<<Region(0, 0), Region(p, p)>> : p \in {Len(text)} \ {0}}

Folds(text) ==
    {<< >>} \cup {<<Region(x, Len(text))>> : x \in {Len(text) - 2} \cap Nat}

\* the stack before the plugin runs: empty, or one edit by the user
UserEdits(text) ==
    {<< >>} \cup {<<[text |-> [text EXCEPT ![1] = "b"], by |-> "user"]>> : x \in 1..Min(1, Len(text))}

NoSettings == [name \in {} |-> TRUE]

SettingsFiles ==
    {NoSettings,
     [placeholder_chars |-> <<"b">>],
     [placeholder_chars |-> <<"a", "b">>, case_sensitive |-> FALSE,
      jump_target_scope |-> "comment"]}

GrouperSettingsFiles ==
    {NoSettings,
     [placeholder_chars |-> <<"a">>],
     [placeholder_chars |-> <<"a", "b">>],
     [placeholder_chars |-> <<"b", "a", "0">>, case_sensitive |-> FALSE]}

\* the locals of create_jump_target_groups and self.jump_target_index, at
\* the start of a call; pc is the statement the call is at
Frame(pc, interleaved, placeholder_chars) ==
    [pc |-> pc, interleaved |-> interleaved, placeholder_chars |-> placeholder_chars,
     jump_target_index |-> 0, jump_target_groups |-> << >>,
     jump_group |-> EmptyDict, c |-> 1]

NoFrame == Frame("none", << >>, << >>)

InitGlobals ==
    /\ jump_match_regions = << >>
    /\ JUMP_GROUP_GENERATOR = None
    /\ CURRENT_JUMP_GROUP = None
    /\ SELECT_TEXT = FALSE
    /\ COMMAND_MODE_WAS = FALSE
    /\ JUMP_TARGET_SCOPE = "string"
    /\ last = Done("init")
    /\ calls = << >>
    /\ frame = NoFrame

Init ==
    /\ buffer \in Texts
    /\ visible_region = Region(0, Len(buffer))
    /\ sel \in Selections(buffer)
    /\ folded = << >>
    /\ view_settings \in [easy_motion_mode : {FALSE}, command_mode : BOOLEAN]
    /\ undo_stack \in UserEdits(buffer)
    /\ plugin_settings \in SettingsFiles
    /\ session = [command_mode |-> view_settings.command_mode]
    /\ InitGlobals

Next ==
    \/ \E character \in Characters, select_text \in BOOLEAN :
           EasyMotionCommand(character, select_text)
    \/ \E isNext \in BOOLEAN : ShowJumpGroupCommand(isNext)
    \/ ShowJumpGroupNoGenerator
    \/ \E character \in Labels : JumpTo(character)
    \/ JumpToNoGroup
    \/ DeactivateJumpTargets

Spec == Init /\ [][Next]_vars

\* short texts under every settings file, and one long text, more matches than
\* a page of the default alphabet holds, under the default settings
GrouperInit ==
    /\ \/ /\ buffer \in SeqsUpTo(GrouperTextChars, MaxGrouperTextLen)
          /\ visible_region \in VisibleRegions(buffer)
          /\ sel \in Carets(buffer)
          /\ folded \in Folds(buffer)
          /\ plugin_settings \in GrouperSettingsFiles
       \/ /\ buffer = LongText(LongRun)
          /\ visible_region = Region(0, Len(buffer))
          /\ sel \in {<<Region(0, 0)>>, <<Region(Len(buffer), Len(buffer))>>}
          /\ folded = << >>
          /\ plugin_settings = NoSettings
    /\ view_settings = [easy_motion_mode |-> FALSE, command_mode |-> FALSE]
    /\ undo_stack = << >>
    /\ session = [command_mode |-> FALSE]
    /\ InitGlobals

GrouperNext ==
    \/ \E character \in GrouperCharacters : Construct(character)
    \/ CallNext
    \/ CallPrevious

GrouperSpec == GrouperInit /\ [][GrouperNext]_vars

(***************************************************************************)
(* Properties of the generator, checked under GrouperSpec.                 *)
(***************************************************************************)
Built == JUMP_GROUP_GENERATOR # None
Groups == JUMP_GROUP_GENERATOR.jump_target_groups
Interleaved == JUMP_GROUP_GENERATOR.interleaved_jump_targets
Alphabet == JUMP_GROUP_GENERATOR.placeholder_chars

Distinct(chars) == \A i, j \in 1..Len(chars) : chars[i] = chars[j] => i = j

GroupValues == Concat([i \in 1..Len(Groups) |-> values(Groups[i])])

\* C1: for an alphabet of k >= 1 distinct characters and n interleaved targets
\* there are ceil(n/k) groups, every group but the last holds exactly k
\* entries, and the groups' values, group after group in insertion order, are
\* the interleaved list.
C1_Partitioning ==
    (Built /\ Len(Alphabet) >= 1 /\ Distinct(Alphabet)) =>
        LET n == Len(Interleaved)
            k == Len(Alphabet)
        IN  /\ Len(Groups) = (n + k - 1) \div k
            /\ \A i \in 1..(Len(Groups) - 1) : DictLen(Groups[i]) = k
            /\ GroupValues = Interleaved

C1_Witness ==
    /\ Built /\ Distinct(Alphabet) /\ Len(Alphabet) >= 2
    /\ Len(Groups) >= 2
    /\ DictLen(Groups[Len(Groups)]) < Len(Alphabet)

\* C2: every match position the locator produced is the value of exactly one
\* entry of exactly one group, for every configured alphabet and the built-in
\* default.  Stated for the matches outside the selection span, which the
\* interleaver keeps.
C2_EveryMatchInExactlyOneGroup ==
    Built =>
        \A t \in Range(JUMP_GROUP_GENERATOR.all_jump_targets) :
            (begin(t) < begin(sel[1]) \/ begin(t) > end(sel[1])) =>
                Cardinality({ij \in (1..Len(Groups)) \X (1..Len(Alphabet)) :
                                /\ ij[2] <= DictLen(Groups[ij[1]])
                                /\ Groups[ij[1]].items[ij[2]].value = t}) = 1

Nexts(n) == [i \in 1..n |-> "next"]

\* C3 as stated: len(groups) calls of next() from the initial state return the
\* first group, and one call of previous() from the initial state returns the
\* last group.
C3_WrapAsStated ==
    (Built /\ Len(Groups) > 0) =>
        /\ calls = Nexts(Len(Groups)) => last.ret = Groups[1]
        /\ calls = <<"previous">> => last.ret = Groups[Len(Groups)]

\* C3 amended: len(groups) calls of next() from the initial state end on the
\* last group and the call after them returns to the first group; one call of
\* previous() from the initial state returns the last group.
C3_Wrap ==
    (Built /\ Len(Groups) > 0) =>
        /\ calls = Nexts(Len(Groups)) => last.ret = Groups[Len(Groups)]
        /\ calls = Nexts(Len(Groups) + 1) => last.ret = Groups[1]
        /\ calls = <<"previous">> => last.ret = Groups[Len(Groups)]

C3_Witness ==
    /\ Built /\ Len(Groups) >= 2
    /\ calls = Nexts(Len(Groups) + 1)
    /\ last.ret = Groups[1]

\* the matches on either side of the first selection, and the j-th nearest
BeforeSide == {t \in Range(JUMP_GROUP_GENERATOR.all_jump_targets) : begin(t) < begin(sel[1])}
AfterSide == {t \in Range(JUMP_GROUP_GENERATOR.all_jump_targets) : begin(t) > end(sel[1])}
NearestBefore(j) ==
    CHOOSE t \in BeforeSide : Cardinality({u \in BeforeSide : begin(u) > begin(t)}) = j - 1
NearestAfter(j) ==
    CHOOSE t \in AfterSide : Cardinality({u \in AfterSide : begin(u) < begin(t)}) = j - 1

\* C10: the interleaved list is nearest-before, nearest-after, next-before,
\* next-after, ... alternating while both sides last, then the rest of the
\* longer side nearest first; it starts on the before side when there is one;
\* and it is a permutation of the matches outside the selection span.
C10_InterleavingOrder ==
    Built =>
        LET nb == Cardinality(BeforeSide)
            na == Cardinality(AfterSide)
            both == Min(nb, na)
        IN  /\ Len(Interleaved) = nb + na
            /\ Range(Interleaved) = BeforeSide \cup AfterSide
            /\ \A j \in 1..both : /\ Interleaved[2 * j - 1] = NearestBefore(j)
                                  /\ Interleaved[2 * j] = NearestAfter(j)
            /\ \A j \in (both + 1)..nb : Interleaved[both + j] = NearestBefore(j)
            /\ \A j \in (both + 1)..na : Interleaved[both + j] = NearestAfter(j)
            /\ (nb > 0 => Interleaved[1] = NearestBefore(1))
            /\ (nb = 0 /\ na > 0 => Interleaved[1] = NearestAfter(1))

C10_Witness ==
    /\ Built
    /\ Cardinality(BeforeSide) >= 1
    /\ Cardinality(AfterSide) >= Cardinality(BeforeSide) + 2
    /\ Len(Interleaved) = Cardinality(BeforeSide) + Cardinality(AfterSide)

(***************************************************************************)
(* Properties of a jump session, checked under Spec.                       *)
(***************************************************************************)
EasyMotionMode == view_settings.easy_motion_mode

\* C4: a page command never runs next() or previous() on a generator whose
\* group sequence is empty.
C4_PageNeverOnEmptyGrouper ==
    (last.cmd = "show_jump_group" /\ JUMP_GROUP_GENERATOR # None) =>
        Len(JUMP_GROUP_GENERATOR.jump_target_groups) > 0

ZeroMatchRequest == last'.cmd = "easy_motion" /\ last'.status = "unable to find"

\* C5: a jump request that finds no match changes neither the view's mode
\* flags nor the shared session state.
C5_ZeroMatchesMutateNothing ==
    [][ZeroMatchRequest =>
          UNCHANGED <<view_settings, JUMP_GROUP_GENERATOR, CURRENT_JUMP_GROUP,
                      SELECT_TEXT, COMMAND_MODE_WAS>>]_vars

SessionEnds ==
    /\ EasyMotionMode
    /\ last'.cmd \in {"jump_to", "deactivate_jump_targets"}
    /\ last'.raised = NoError

\* C6: when confirm or cancel ends a session, easy_motion_mode is off, the
\* highlight regions are erased, no overlay is left applied and command_mode is
\* what it was before the session started.
C6_CleanupOnSessionEnd ==
    [][SessionEnds =>
          /\ ~view_settings'.easy_motion_mode
          /\ jump_match_regions' = << >>
          /\ OverlaysApplied(undo_stack') = 0
          /\ view_settings'.command_mode = session.command_mode]_vars

OverlayShown == OverlaysApplied(undo_stack) > 0

\* C7: at most one overlay is applied at a time, it is the newest edit and is
\* the shown group's labels over the text it will be undone to, with that
\* group's positions highlighted; a page or jump command that issued an undo
\* reverted the overlay shown before it; where no overlay is applied there are
\* no highlight regions; and confirm and cancel leave neither.
C7_OverlayPairing ==
    /\ OverlaysApplied(undo_stack) <= 1
    /\ OverlayShown =>
          /\ undo_stack[Len(undo_stack)].by = "overlay"
          /\ CURRENT_JUMP_GROUP # None
          /\ buffer = replace_all(undo_stack[Len(undo_stack)].text, CURRENT_JUMP_GROUP, 1)
          /\ jump_match_regions = values(CURRENT_JUMP_GROUP)
          /\ jump_match_regions # << >>
    /\ ~OverlayShown => jump_match_regions = << >>
    /\ (last.cmd \in {"show_jump_group", "easy_motion"} /\ last.undid # "not run") =>
          last.undid = "overlay"
    /\ (last.cmd \in {"jump_to", "deactivate_jump_targets"} /\ last.raised = NoError) =>
          ~OverlayShown /\ jump_match_regions = << >>

C7_Witness ==
    /\ last.cmd = "show_jump_group"
    /\ last.undid = "overlay"
    /\ OverlayShown
    /\ JUMP_GROUP_GENERATOR.jump_target_group_index > 0

\* C8: confirming a character that is no key of the shown group produces no
\* winning selection, leaves the view's selection as it is, and cleans up as a
\* successful confirm does: no overlay applied, no highlight regions,
\* easy_motion_mode off.
C8_UnknownLabelCancels ==
    [][\A character \in Labels :
          (JumpTo(character) /\ ~DictHas(CURRENT_JUMP_GROUP, character)) =>
              /\ last'.winning = None
              /\ sel' = sel
              /\ OverlaysApplied(undo_stack') = 0
              /\ jump_match_regions' = << >>
              /\ ~view_settings'.easy_motion_mode]_vars

C8_Witness ==
    /\ last.cmd = "jump_to"
    /\ last.raised = NoError
    /\ last.winning = None
    /\ last.undid = "overlay"

\* the selection C9 states for a match m and the first selection s
ResolvedSelection(m, s, select_text) ==
    IF select_text
    THEN IF begin(m) < begin(s) THEN Region(end(s), begin(m))
         ELSE Region(begin(s), end(m))
    ELSE Region(begin(m), begin(m))

\* C9: confirming a key of the shown group sets the view's selection to one
\* region: the point (m.begin, m.begin) with selection mode off; with it on,
\* (sel.end, m.begin) when the match m begins before the first selection and
\* (sel.begin, m.end) otherwise.
C9_LabelResolution ==
    [][\A character \in Labels :
          (JumpTo(character) /\ DictHas(CURRENT_JUMP_GROUP, character)) =>
              sel' = <<ResolvedSelection(DictGet(CURRENT_JUMP_GROUP, character),
                                         sel[1], SELECT_TEXT)>>]_vars

(***************************************************************************)
(* The generator's construction over a wider range of views: upper and     *)
(* lower case, several lines, selections with a span, a second selection,  *)
(* folds inside and outside the visible region.                            *)
(***************************************************************************)
LocatorTextChars == {"a", "A", "\n"}
LocatorCharacters == {"a", "A", ".", "enter"}

RegionsOf(text) == {Region(x, y) : x, y \in 0..Len(text)}

LocatorSelections(text) ==
    {<<r>> : r \in RegionsOf(text)}
        \cup {<<r, Region(Len(text), Len(text))>> :
                 r \in {q \in RegionsOf(text) : end(q) < Len(text)}}

LocatorFolds(text) ==
    {<< >>}
        \cup {<<Region(x, Len(text))>> : x \in {Len(text) - 2} \cap Nat}
        \cup {<<Region(0, 1), Region(x, Len(text))>> : x \in {Len(text) - 2} \cap (Nat \ {0})}

LocatorSettingsFiles ==
    {NoSettings,
     [placeholder_chars |-> <<"a", "b">>],
     [case_sensitive |-> FALSE]}

LocatorInit ==
    /\ buffer \in SeqsUpTo(LocatorTextChars, MaxLocatorTextLen)
    /\ visible_region \in VisibleRegions(buffer)
    /\ sel \in LocatorSelections(buffer)
    /\ folded \in LocatorFolds(buffer)
    /\ plugin_settings \in LocatorSettingsFiles
    /\ view_settings = [easy_motion_mode |-> FALSE, command_mode |-> FALSE]
    /\ undo_stack = << >>
    /\ session = [command_mode |-> FALSE]
    /\ InitGlobals

LocatorNext == \E character \in LocatorCharacters : Construct(character)

LocatorSpec == LocatorInit /\ [][LocatorNext]_vars

DefaultCase == "case_sensitive" \notin DOMAIN plugin_settings

\* offset p of the buffer holds the first or the last character of a line of
\* the visible text
OnLineBoundary(p) ==
    LET text == visible_text(View)
        i == p - visible_region_begin(View)
    IN  \/ i = 0 \/ text[i] = "\n"
        \/ i + 1 = Len(text) \/ text[i + 2] = "\n"

\* C11: under the default settings every match position the locator produces
\* holds the target character, or for the target "enter" a character at the
\* start or the end of a line, and none lies inside a folded region.
C11_MatchLocator ==
    [][\A character \in LocatorCharacters :
          (Construct(character) /\ DefaultCase) =>
              \A t \in Range(JUMP_GROUP_GENERATOR'.all_jump_targets) :
                  /\ IF character = "enter" THEN OnLineBoundary(begin(t))
                     ELSE buffer[begin(t) + 1] = character
                  /\ ~\E i \in 1..Len(folded) : contains(folded[i], t)]_vars

DefaultAlphabet == "placeholder_chars" \notin DOMAIN plugin_settings

\* C12: with placeholder_chars not configured the label alphabet of a built
\* generator is 62 pairwise distinct characters, and no page holds more than
\* 62 targets.
C12_DefaultAlphabet ==
    (Built /\ DefaultAlphabet) =>
        /\ Len(Alphabet) = 62
        /\ Distinct(Alphabet)
        /\ \A i \in 1..Len(Groups) : DictLen(Groups[i]) <= 62

GroupIndex == JUMP_GROUP_GENERATOR.jump_target_group_index

\* C13: on a non-empty group sequence of length L every next() or previous()
\* call leaves the index in 0..L-1 and returns groups[index]; from a valid
\* index i, next() moves to (i+1) mod L and previous() to (i-1) mod L.
C13_GroupCursor ==
    [][(Built /\ Len(Groups) > 0 /\ last'.cmd \in {"next", "previous"}) =>
          LET L == Len(Groups)
              i == GroupIndex
              j == GroupIndex'
          IN  /\ j \in 0..(L - 1)
              /\ last'.raised = NoError
              /\ last'.ret = Groups'[j + 1]
              /\ (i \in 0..(L - 1) /\ last'.cmd = "next") => j = (i + 1) % L
              /\ (i \in 0..(L - 1) /\ last'.cmd = "previous") => j = (i - 1) % L]_vars

\* previous() from the first of several groups has wrapped to the last one
C13_Witness ==
    /\ Built
    /\ Len(Groups) >= 2
    /\ calls = <<"next", "previous">>
    /\ GroupIndex = Len(Groups) - 1
    /\ last.ret = Groups[Len(Groups)]

AllTargets == JUMP_GROUP_GENERATOR.all_jump_targets
SelBegin == begin(sel[1])
SelEnd == end(sel[1])
Dropped == {t \in Range(AllTargets) : SelBegin <= begin(t) /\ begin(t) <= SelEnd}

\* C14: with the first selection [sel_begin, sel_end], a match is on the before
\* side iff it starts before sel_begin and on the after side iff it starts
\* after sel_end; a match that starts in sel_begin..sel_end is in no group;
\* selections other than the first change nothing.
C14_SelectionSpanExclusion ==
    Built =>
        LET before == before_targets(AllTargets, SelBegin)
            after == after_targets(AllTargets, SelBegin, SelEnd)
        IN  /\ \A t \in Range(AllTargets) :
                   /\ t \in Range(before) <=> begin(t) < SelBegin
                   /\ t \in Range(after) <=> begin(t) > SelEnd
            /\ Range(Interleaved) = Range(before) \cup Range(after)
            /\ Dropped \cap Range(Interleaved) = {}
            /\ Dropped \cap Range(GroupValues) = {}
            /\ Interleaved =
                   interleave_jump_targets_from_cursor(
                       [View EXCEPT !.sel = <<sel[1]>>], AllTargets)

\* two selections, the first one a span that covers a match and has matches
\* on both of its sides
C14_Witness ==
    /\ Built
    /\ Len(sel) = 2
    /\ SelBegin < SelEnd
    /\ Dropped # {}
    /\ \E t \in Range(Interleaved) : begin(t) < SelBegin
    /\ \E t \in Range(Interleaved) : begin(t) > SelEnd
    /\ Range(GroupValues) = Range(Interleaved)

\* C15: once a generator's groups are computed, showing a page (next() or
\* previous() and the overlay), confirming and cancelling change the
\* generator in its cursor index only; after a jump request the groups are
\* the ones construction computed from the interleaved targets.
C15_GroupsImmutable ==
    [][/\ (Built /\ last'.cmd \in {"show_jump_group", "jump_to",
                                   "deactivate_jump_targets"}) =>
              /\ Built'
              /\ JUMP_GROUP_GENERATOR' =
                     [JUMP_GROUP_GENERATOR EXCEPT
                         !.jump_target_group_index = GroupIndex']
       /\ (last'.cmd = "easy_motion" /\ Built') =>
              Groups' = create_jump_target_groups(Interleaved', Alphabet').groups
      ]_vars

\* a label of the second of several pages has been confirmed
C15_Witness ==
    /\ Built
    /\ last.cmd = "jump_to"
    /\ last.raised = NoError
    /\ last.winning # None
    /\ Len(Groups) >= 2
    /\ GroupIndex = 1

(***************************************************************************)
(* create_jump_target_groups, statement by statement.                      *)
(***************************************************************************)
UNCHANGED_BUT_FRAME ==
    UNCHANGED <<buffer, visible_region, sel, folded, view_settings,
                jump_match_regions, undo_stack, plugin_settings,
                JUMP_GROUP_GENERATOR, CURRENT_JUMP_GROUP, SELECT_TEXT,
                COMMAND_MODE_WAS, JUMP_TARGET_SCOPE, last, session, calls>>

\* while self.has_next_jump_target(): jump_group = {} ... ; return
WhileHasNext ==
    /\ frame.pc = "while"
    /\ frame' = IF has_next_jump_target(frame.interleaved, frame.jump_target_index)
                THEN [frame EXCEPT !.pc = "for", !.jump_group = EmptyDict, !.c = 1]
                ELSE [frame EXCEPT !.pc = "return"]
    /\ UNCHANGED_BUT_FRAME

\* for placeholder_char in placeholder_chars: if has_next: assign else: break
ForPlaceholderChar ==
    /\ frame.pc = "for"
    /\ frame' = IF /\ frame.c <= Len(frame.placeholder_chars)
                   /\ has_next_jump_target(frame.interleaved, frame.jump_target_index)
                THEN [frame EXCEPT
                         !.jump_group = DictSet(@, frame.placeholder_chars[frame.c],
                                                frame.interleaved[frame.jump_target_index + 1]),
                         !.jump_target_index = @ + 1,
                         !.c = @ + 1]
                ELSE [frame EXCEPT !.pc = "append"]
    /\ UNCHANGED_BUT_FRAME

\* jump_target_groups.append(jump_group). A list longer than the list of
\* targets arises only when a pass of the loop assigns no target; of such a
\* list the first Len(interleaved) + 1 groups are kept.
AppendJumpGroup ==
    /\ frame.pc = "append"
    /\ frame' = [frame EXCEPT
                    !.pc = "while",
                    !.jump_target_groups =
                        IF Len(@) <= Len(frame.interleaved)
                        THEN Append(@, frame.jump_group) ELSE @]
    /\ UNCHANGED_BUT_FRAME

CreateTargetLists ==
    {[i \in 1..n |-> Region(i - 1, i)] : n \in 0..MaxCreateTargets}

CreateAlphabets ==
    {<< >>, <<"a">>, <<"a", "b">>, <<"a", "a">>, <<"a", "b", "c">>}

CreateInit ==
    /\ buffer = << >>
    /\ visible_region = Region(0, 0)
    /\ sel = <<Region(0, 0)>>
    /\ folded = << >>
    /\ plugin_settings = NoSettings
    /\ view_settings = [easy_motion_mode |-> FALSE, command_mode |-> FALSE]
    /\ undo_stack = << >>
    /\ session = [command_mode |-> FALSE]
    /\ jump_match_regions = << >>
    /\ JUMP_GROUP_GENERATOR = None
    /\ CURRENT_JUMP_GROUP = None
    /\ SELECT_TEXT = FALSE
    /\ COMMAND_MODE_WAS = FALSE
    /\ JUMP_TARGET_SCOPE = "string"
    /\ last = Done("init")
    /\ calls = << >>
    /\ \E interleaved \in CreateTargetLists, placeholder_chars \in CreateAlphabets :
           frame = Frame("while", interleaved, placeholder_chars)

CreateNext == WhileHasNext \/ ForPlaceholderChar \/ AppendJumpGroup

\* a call that has started keeps running: the interpreter executes the next
\* statement of the loop as long as there is one
CreateSpec == CreateInit /\ [][CreateNext]_vars /\ WF_vars(CreateNext)

\* C16: for every finite list of interleaved targets and every alphabet, the
\* empty one included, create_jump_target_groups reaches its return, with
\* the target index equal to the number of interleaved targets.
C16_ConstructionTerminates ==
    <>(frame.pc = "return" /\ frame.jump_target_index = Len(frame.interleaved))

C18_UndoOnlyOverlays ==
    last.undid # "user"

\* the folds that hide text of the visible region
FoldsInVisibleRegion == {f \in Range(folded) : intersects(f, visible_region)}

\* C19: when get_folded_regions has returned, as it has when a generator is
\* built, the view's folded regions are the ones folded before the call, and
\* the list returned is the regions that were folded inside the visible
\* region, each once.
C19_FoldQueryScoped ==
    [][last'.cmd = "construct" =>
          /\ Range(folded') = Range(folded)
          /\ Len(folded') = Len(folded)
          /\ Range(get_folded_regions(View)) = FoldsInVisibleRegion
          /\ Len(get_folded_regions(View)) = Cardinality(FoldsInVisibleRegion)]_vars

\* a generator was built on a view with a fold inside the visible region and
\* a fold outside of it
C19_Witness ==
    /\ last.cmd = "construct"
    /\ Built
    /\ FoldsInVisibleRegion # {}
    /\ Range(folded) \ FoldsInVisibleRegion # {}

====
